---- MODULE Spec2Model ----
(***************************************************************************)
(* Job lifecycle of the Sora 2 tool: VideoService.createVideoGeneration    *)
(* and VideoService.checkVideoStatus running against the job table, the    *)
(* video bucket and the remote video API, together with the generator      *)
(* page's polling pass.  Every await of the TypeScript code is a step      *)
(* boundary, so calls of different callers interleave at their awaits.     *)
(* The job table answers every request; an update or a select of a row     *)
(* that is absent fails as the Supabase adapter makes it fail.  Further    *)
(* sections model the remote API client (SoraAPI) with the key screen and  *)
(* the generation form in front of it, deleteVideoGeneration, the two     *)
(* pure functions of image-utils, createVideoGeneration with a reference   *)
(* image, and the balance bookkeeping of AccountService.                   *)
(***************************************************************************)
EXTENDS Integers, Sequences, FiniteSets, TLC

(* ---------------------------------------------------------------- bounds *)
MaxJobs == 2
MaxCreates == 1
MaxCalls == 2
NumProcs == 2
MaxKeyLen == 2
MaxRequests == 2
MaxDim == 5
MaxLen == 4
MaxAmount == 2

JobIds == 1..MaxJobs
Procs == 1..NumProcs

(* ------------------------------------------------------------ vocabulary *)
NullId == 0
NullUrl == << >>
NullMsg == "null"
NoError == "none"

RemoteStatuses == {"completed", "failed", "processing", "queued", "in_progress", "archived"}

\* A status payload: the status string and the message of its error object
\* (NoError when the payload carries no error object).  The remote answers
\* with one payload for each branch checkVideoStatus takes on it.
RemoteResponses ==
  [status : {"completed", "failed", "queued", "archived"}, error : {NoError}]
    \cup [status : {"in_progress"}, error : {"policy violation"}]

\* every payload: any status string, with no error object, with an error
\* object that has no message ("") or with one that has a message
AllResponses == [status : RemoteStatuses, error : {NoError, "", "policy violation"}]

NoMeta == [status |-> "none", error |-> NoError]
SubmitResponse == [status |-> "queued", error |-> NoError]

SubmitErrors == {"API request failed with status 500"}
DownloadErrors == {"Failed to download video content: 500"}
UploadErrors == {"Failed to upload video: storage unavailable"}

RemoteIdOf(id) == 100 + id

NoGen ==
  [status |-> "none", openai_job_id |-> NullId, video_url |-> NullUrl,
   error_message |-> NullMsg, metadata |-> NoMeta]

NoUpdates == [f \in {} |-> NullMsg]

\* the strings of at most n of the given characters
RECURSIVE StringsOver(_, _)
StringsOver(chars, n) ==
  IF n = 0 THEN {<< >>}
  ELSE LET shorter == StringsOver(chars, n - 1) IN
       shorter \cup {Append(t, c) : t \in shorter, c \in chars}

VARIABLES
  db,          \* job table: a function from the ids of the stored rows to rows
  videoStore,  \* keys of the objects held by the video bucket
  nextId,      \* next id the table assigns
  cpc,         \* createVideoGeneration: "idle", "submit" or "catch"
  cid,         \* id of the row the running create inserted
  cresult,     \* what the last create did: "none", "returned", "threw"
  cerror,      \* message of the error soraAPI.createVideo rejected with
  pc,          \* checkVideoStatus, per caller
  gid,         \* its generationId
  generation,  \* its first read of the row
  updates,     \* its updates object
  result,      \* "none", "returned", "threw"
  ret,         \* the VideoGeneration it returned
  polled,      \* remote status its getVideo returned, or "threw"
  downloads,   \* per caller: downloadContent requests the call issued
  uploads,     \* per caller: uploadVideo requests the call issued
  interfered,  \* per caller: the row was written by someone else during the call
  overlapped,  \* per caller: another call for the same row was in flight with it
  calls,       \* checkVideoStatus calls started so far
  last,        \* per job: the call that settled last
  generations, \* GeneratorPage: the listed rows, by id
  loading,     \* GeneratorPage: loadGenerations has not answered yet
  passLog,     \* per job of the running polling pass: what became of its call
  tpc,         \* pages/GeneratorPage.tsx: the interval is "waiting" or has "fired"
  todo,        \* pages/GeneratorPage.tsx: rows the running loop has yet to check
  apiKey,      \* SoraAPI.apiKey of the instance in use, NoKey while there is none
  storedKey,   \* localStorage 'openai_api_key'
  model,       \* VideoGenerationForm: the selected model
  resolution,  \* VideoGenerationForm: the selected resolution
  requests,    \* requests sent to the remote video API so far
  did,         \* deleteVideoGeneration: the id of the last call
  dcount,      \* the rows its delete matched
  dresult,     \* "none", "returned", "threw"
  args,        \* image-utils: the arguments of the call
  out,         \* image-utils: what the call returned, Threw or NotCalled
  crequest,    \* createVideoGeneration: its request argument
  imageFile,   \* createVideoGeneration: its imageFile argument, NoFile without one
  imageUrl,    \* createVideoGeneration: its local imageUrl
  imageStore,  \* paths of the objects held by the image bucket
  posted,      \* the POST /videos the running create has sent, NoPost before it
  opening,     \* accounts.balance before the first AccountService call
  balance,     \* accounts.balance of the one account
  transactions,\* the rows of the transactions table, in insertion order
  apc,         \* AccountService, per call: "idle", "read", "update", "insert", "done"
  akind,       \* per call: 'deposit', 'charge' or 'refund'
  amount,      \* per call: its amount argument
  newBalance,  \* per call: its local newBalance
  aresult      \* per call: "none", "returned", "threw"

callVars == <<pc, gid, generation, updates, result, ret, polled, downloads, uploads>>
createVars == <<nextId, cpc, cid, cresult, cerror>>
countVars == <<calls>>

timerVars == <<tpc, todo>>
uiVars == <<generations, loading, passLog, timerVars>>

clientVars == <<apiKey, storedKey, model, resolution, requests>>
deleteVars == <<did, dcount, dresult>>
utilVars == <<args, out>>
imageVars == <<crequest, imageFile, imageUrl, imageStore, posted>>
accountVars == <<opening, balance, transactions, apc, akind, amount, newBalance, aresult>>
auxVars == <<clientVars, deleteVars, utilVars, imageVars, accountVars>>

vars ==
  <<db, videoStore, createVars, callVars, interfered, overlapped, countVars, last,
    uiVars, auxVars>>

\* no SoraAPI instance, the form as it first renders, no delete and no
\* image-utils call made
NoKey == <<"null">>
NotCalled == [kind |-> "none"]
Threw == [kind |-> "threw"]
Returned(value) == [kind |-> "returned", value |-> value]
NoFile == "undefined"
NoRequest == [prompt |-> "", model |-> "none", resolution |-> "none", duration |-> 0]
NoPost == [body |-> "none", image |-> NullUrl]

\* no create with an image under way, the image bucket empty
ImageIdle ==
  /\ crequest = NoRequest
  /\ imageFile = NoFile
  /\ imageUrl = NullUrl
  /\ imageStore = {}
  /\ posted = NoPost

\* no AccountService call under way and none made
CallsIdle ==
  /\ apc = [p \in Procs |-> "idle"]
  /\ akind = [p \in Procs |-> "none"]
  /\ amount = [p \in Procs |-> 0]
  /\ newBalance = [p \in Procs |-> 0]
  /\ aresult = [p \in Procs |-> "none"]
AccountIdle ==
  /\ opening = 0
  /\ balance = 0
  /\ transactions = << >>
  /\ CallsIdle

AuxIdle ==
  /\ ImageIdle
  /\ AccountIdle
  /\ apiKey = NoKey
  /\ storedKey = NoKey
  /\ model = "sora-2"
  /\ resolution = "1280x720"
  /\ requests = {}
  /\ did = NullId
  /\ dcount = 0
  /\ dresult = "none"
  /\ args = << >>
  /\ out = NotCalled

(* --------------------------------------------------------- the job table *)
Exists(id) == id \in DOMAIN db

\* variant: the update replaces the row, columns not given falling back to
\* their defaults
MergeReplaces(row, upd) ==
  [f \in DOMAIN row |->
     IF f \in DOMAIN upd THEN upd[f]
     ELSE IF f \in DOMAIN NoGen THEN NoGen[f] ELSE NullMsg]

\* update(updates).eq('id', id): merges the given columns into the row
Merge(row, upd) ==
  [f \in DOMAIN row |-> IF f \in DOMAIN upd THEN upd[f] ELSE row[f]]

\* the other callers that hold a call on the same row, and those among them
\* whose call has not settled yet
Others(p, id) == {q \in Procs \ {p} : pc[q] # "idle" /\ gid[q] = id}
InFlight(p, id) == {q \in Others(p, id) : pc[q] # "done"}

\* the three shapes of a row whose columns agree with its status
Shape(row) ==
  \/ row.status = "completed" /\ row.video_url # NullUrl /\ row.error_message = NullMsg
  \/ row.status = "failed" /\ row.error_message # NullMsg /\ row.video_url = NullUrl
  \/ row.status = "processing" /\ row.video_url = NullUrl /\ row.error_message = NullMsg

\* a write of row id by p (0 for createVideoGeneration) is seen by the others
Touch(p, id) ==
  [q \in Procs |-> IF q \in Others(p, id) THEN TRUE ELSE interfered[q]]

\* last, kept of a call that polled 'completed' with no other call for its
\* row in flight: the video_url it read and the one it left, the requests it
\* issued, and whether the call that had settled before it had stored the video
NoLast ==
  [polled |-> "none", url0 |-> NullUrl, url |-> NullUrl, dl |-> 0, ul |-> 0,
   overlapped |-> FALSE, after |-> FALSE]

\* nothing stored, no call running, the page not loaded
ServiceIdle ==
  /\ db = << >>
  /\ videoStore = {}
  /\ nextId = 1
  /\ cpc = "idle"
  /\ cid = NullId
  /\ cresult = "none"
  /\ cerror = NullMsg
  /\ pc = [p \in Procs |-> "idle"]
  /\ gid = [p \in Procs |-> NullId]
  /\ generation = [p \in Procs |-> NoGen]
  /\ updates = [p \in Procs |-> NoUpdates]
  /\ result = [p \in Procs |-> "none"]
  /\ ret = [p \in Procs |-> NoGen]
  /\ polled = [p \in Procs |-> "none"]
  /\ downloads = [p \in Procs |-> 0]
  /\ uploads = [p \in Procs |-> 0]
  /\ interfered = [p \in Procs |-> FALSE]
  /\ calls = 0
  /\ last = [i \in JobIds |-> NoLast]
  /\ overlapped = [p \in Procs |-> FALSE]
  /\ generations = << >>
  /\ loading = TRUE
  /\ passLog = << >>
  /\ tpc = "waiting"
  /\ todo = {}

Init == ServiceIdle /\ AuxIdle

(* ------------------------------------------------ createVideoGeneration *)
\* database.createVideoGeneration(dbRecord): the row is stored as 'pending'
CreateInsert ==
  /\ cpc = "idle"
  /\ nextId <= MaxCreates
  /\ db' = db @@ (nextId :> [NoGen EXCEPT !.status = "pending"])
  /\ cid' = nextId
  /\ nextId' = nextId + 1
  /\ cpc' = "submit"
  /\ cresult' = "none"
  /\ cerror' = NullMsg
  /\ UNCHANGED <<videoStore, callVars, interfered, overlapped, countVars, last>>
  /\ UNCHANGED <<uiVars, auxVars>>

\* variant: the update after the submission leaves openai_job_id out
SubmitUpdatesNoJobId(response, id) ==
  [status |-> "processing", metadata |-> response]

\* soraAPI.createVideo resolved: the row gets the job id and 'processing'
SubmitUpdates(response, id) ==
  [openai_job_id |-> RemoteIdOf(id), status |-> "processing", metadata |-> response]

CreateSubmitOk ==
  /\ cpc = "submit"
  /\ db' = [db EXCEPT ![cid] = Merge(@, SubmitUpdates(SubmitResponse, cid))]
  /\ cpc' = "idle"
  /\ cresult' = "returned"
  /\ interfered' = Touch(0, cid)
  /\ UNCHANGED <<videoStore, nextId, cid, cerror, callVars, overlapped,
                 countVars, last>>
  /\ UNCHANGED <<uiVars, auxVars>>

\* variant: a catch block marks the row failed without a message
FailedUpdatesNoMessage(message) ==
  [status |-> "failed"]

\* the columns a catch block writes
FailedUpdates(message) ==
  [status |-> "failed", error_message |-> message]

\* soraAPI.createVideo rejected: control enters the catch block
CreateSubmitFail ==
  /\ cpc = "submit"
  /\ \E e \in SubmitErrors : cerror' = e
  /\ cpc' = "catch"
  /\ UNCHANGED <<db, videoStore, nextId, cid, cresult, callVars, interfered,
                 overlapped, countVars, last>>
  /\ UNCHANGED <<uiVars, auxVars>>

\* variant: the catch block rethrows without marking the row
CreateCatchNoMark ==
  /\ cpc = "catch"
  /\ cpc' = "idle"
  /\ cresult' = "threw"
  /\ UNCHANGED <<db, videoStore, nextId, cid, cerror, callVars, interfered,
                 overlapped, countVars, last>>
  /\ UNCHANGED <<uiVars, auxVars>>

\* the catch block marks the row and rethrows
CreateCatch ==
  /\ cpc = "catch"
  /\ db' = [db EXCEPT ![cid] = Merge(@, FailedUpdates(cerror))]
  /\ cpc' = "idle"
  /\ cresult' = "threw"
  /\ interfered' = Touch(0, cid)
  /\ UNCHANGED <<videoStore, nextId, cid, cerror, callVars, overlapped,
                 countVars, last>>
  /\ UNCHANGED <<uiVars, auxVars>>

(* ------------------------------------------------------ checkVideoStatus *)
\* a caller invokes checkVideoStatus(generationId); callers are
\* interchangeable, so the lowest idle one takes the call
Invoke(p, id) ==
  /\ pc[p] = "idle"
  /\ \A q \in Procs : q < p => pc[q] # "idle"
  /\ calls < MaxCalls
  /\ pc' = [pc EXCEPT ![p] = "get"]
  /\ gid' = [gid EXCEPT ![p] = id]
  /\ calls' = calls + 1
  /\ overlapped' = [q \in Procs |->
                      IF q = p THEN InFlight(p, id) # {}
                      ELSE overlapped[q] \/ q \in InFlight(p, id)]
  /\ interfered' = [interfered EXCEPT ![p] = FALSE]
  /\ UNCHANGED <<db, videoStore, createVars, generation, updates, result, ret,
                 polled, downloads, uploads, last>>
  /\ UNCHANGED <<uiVars, auxVars>>

\* a call that polled 'completed' with no other call for its row in flight,
\* read a row without video_url and left one with it
Stored(l) ==
  /\ l.polled = "completed" /\ ~l.overlapped
  /\ l.url0 = NullUrl /\ l.url # NullUrl

\* the call settles: it returned a row or it threw
Finish(p, how, row, status) ==
  /\ pc' = [pc EXCEPT ![p] = "done"]
  /\ result' = [result EXCEPT ![p] = how]
  /\ ret' = [ret EXCEPT ![p] = row]
  /\ last' = [last EXCEPT ![gid[p]] =
                IF status = "completed" /\ ~overlapped[p]
                THEN [polled |-> status, url0 |-> generation[p].video_url,
                      url |-> IF Exists(gid[p]) THEN db[gid[p]].video_url ELSE NullUrl,
                      dl |-> downloads[p], ul |-> uploads[p],
                      overlapped |-> FALSE, after |-> Stored(@)]
                ELSE NoLast]

\* variant: a row without openai_job_id is polled like any other
GetPollsAnyRow(p) ==
  /\ pc[p] = "get"
  /\ IF ~Exists(gid[p])
     THEN /\ Finish(p, "threw", NoGen, "none")
          /\ UNCHANGED generation
     ELSE /\ generation' = [generation EXCEPT ![p] = db[gid[p]]]
          /\ pc' = [pc EXCEPT ![p] = "fetch"]
          /\ UNCHANGED <<result, ret, last>>
  /\ UNCHANGED <<db, videoStore, createVars, gid, updates, polled, downloads,
                 uploads, interfered, overlapped, countVars>>
  /\ UNCHANGED <<uiVars, auxVars>>

\* database.getVideoGeneration(generationId), then the two early exits
Get(p) ==
  /\ pc[p] = "get"
  /\ IF ~Exists(gid[p])
     THEN /\ Finish(p, "threw", NoGen, "none")
          /\ UNCHANGED generation
     ELSE /\ generation' = [generation EXCEPT ![p] = db[gid[p]]]
          /\ IF db[gid[p]].openai_job_id = NullId
             THEN Finish(p, "returned", db[gid[p]], "none")
             ELSE /\ pc' = [pc EXCEPT ![p] = "fetch"]
                  /\ UNCHANGED <<result, ret, last>>
  /\ UNCHANGED <<db, videoStore, createVars, gid, updates, polled, downloads,
                 uploads,                  interfered, overlapped, countVars>>
  /\ UNCHANGED <<uiVars, auxVars>>

\* variant: the outer catch marks the row failed before returning it
FetchThrowsMarksFailed(p) ==
  /\ pc[p] = "fetch"
  /\ db' = [db EXCEPT ![gid[p]] = Merge(@, FailedUpdates("Failed to fetch video status: 500"))]
  /\ Finish(p, "returned", db'[gid[p]], "threw")
  /\ polled' = [polled EXCEPT ![p] = "threw"]
  /\ interfered' = Touch(p, gid[p])
  /\ UNCHANGED <<videoStore, createVars, gid, generation, updates, downloads,
                 uploads,                  overlapped, countVars>>
  /\ UNCHANGED <<uiVars, auxVars>>

\* variant: the rejection of soraAPI.getVideo escapes to the caller
FetchThrowsRethrows(p) ==
  /\ pc[p] = "fetch"
  /\ Finish(p, "threw", NoGen, "threw")
  /\ polled' = [polled EXCEPT ![p] = "threw"]
  /\ UNCHANGED <<db, videoStore, createVars, gid, generation, updates, downloads,
                 uploads,                  interfered, overlapped, countVars>>
  /\ UNCHANGED <<uiVars, auxVars>>

\* soraAPI.getVideo rejected: the outer catch returns the first read
FetchThrows(p) ==
  /\ pc[p] = "fetch"
  /\ Finish(p, "returned", generation[p], "threw")
  /\ polled' = [polled EXCEPT ![p] = "threw"]
  /\ UNCHANGED <<db, videoStore, createVars, gid, generation, updates, downloads,
                 uploads,                  interfered, overlapped, countVars>>
  /\ UNCHANGED <<uiVars, auxVars>>

\* variant: the failed branch stores the message of the error object as it is
ClassifyNoFallback(status) ==
  IF status.status = "completed"
  THEN [metadata |-> status, status |-> "completed"]
  ELSE IF status.status = "failed" \/ status.error # NoError
  THEN [metadata |-> status, status |-> "failed", error_message |-> status.error]
  ELSE IF status.status \in {"processing", "queued", "in_progress"}
  THEN [metadata |-> status, status |-> "processing"]
  ELSE [metadata |-> status]

\* variant: a status string the code does not know marks the row failed
ClassifyUnknownFails(status) ==
  IF status.status = "completed"
  THEN [metadata |-> status, status |-> "completed"]
  ELSE IF status.status = "failed" \/ status.error # NoError
  THEN [metadata |-> status, status |-> "failed",
        error_message |-> IF status.error \in {NoError, ""}
                          THEN "Video generation failed" ELSE status.error]
  ELSE IF status.status \in {"processing", "queued", "in_progress"}
  THEN [metadata |-> status, status |-> "processing"]
  ELSE [metadata |-> status, status |-> "failed",
        error_message |-> "Video generation failed"]

\* the updates object after the branches on status.status that download nothing
Classify(status) ==
  IF status.status = "completed"
  THEN [metadata |-> status, status |-> "completed"]
  ELSE IF status.status = "failed" \/ status.error # NoError
  THEN [metadata |-> status, status |-> "failed",
        error_message |-> IF status.error \in {NoError, ""}
                          THEN "Video generation failed" ELSE status.error]
  ELSE IF status.status \in {"processing", "queued", "in_progress"}
  THEN [metadata |-> status, status |-> "processing"]
  ELSE [metadata |-> status]

\* variant: the completed branch downloads whether or not video_url is set
NeedsDownloadAlways(status, gen) ==
  status.status = "completed"

\* whether the completed branch goes on to downloadAndStoreVideo
NeedsDownload(status, gen) ==
  status.status = "completed" /\ gen.video_url = NullUrl

\* soraAPI.getVideo resolved with one of the given payloads
FetchFrom(p, responses) ==
  /\ pc[p] = "fetch"
  /\ \E status \in responses :
       /\ polled' = [polled EXCEPT ![p] = status.status]
       /\ IF NeedsDownload(status, generation[p])
          THEN /\ updates' = [updates EXCEPT ![p] = [metadata |-> status]]
               /\ pc' = [pc EXCEPT ![p] = "download"]
          ELSE /\ updates' = [updates EXCEPT ![p] = Classify(status)]
               /\ pc' = [pc EXCEPT ![p] = "update"]
  /\ UNCHANGED <<db, videoStore, createVars, gid, generation, result, ret,
                 downloads, uploads,                  interfered, overlapped, countVars, last>>
  /\ UNCHANGED <<uiVars, auxVars>>

Fetch(p) == FetchFrom(p, RemoteResponses)

\* soraAPI.getVideo resolved, the remote answering with any payload
FetchAny(p) == FetchFrom(p, AllResponses)

\* downloadAndStoreVideo: soraAPI.downloadContent
Download(p) ==
  /\ pc[p] = "download"
  /\ downloads' = [downloads EXCEPT ![p] = @ + 1]
  /\ \/ /\ pc' = [pc EXCEPT ![p] = "upload"]
        /\ UNCHANGED updates
     \/ \E e \in DownloadErrors :
          /\ updates' = [updates EXCEPT ![p] = updates[p] @@ FailedUpdates(e)]
          /\ pc' = [pc EXCEPT ![p] = "update"]
  /\ UNCHANGED <<db, videoStore, createVars, gid, generation, result, ret,
                 polled, uploads, interfered, overlapped, calls, last>>
  /\ UNCHANGED <<uiVars, auxVars>>

\* variant: the file name carries a stamp, as the one of uploadImage does
VideoKeyStamped(generationId, videoId) == <<generationId, videoId, Cardinality(videoStore)>>

\* getPublicUrl(`${generationId}/${videoId}.mp4`)
VideoKey(generationId, videoId) == <<generationId, videoId>>
PublicUrl(key) == key

\* variant: the completed branch leaves video_url out of updates
StoredUpdatesNoUrl(key) ==
  [status |-> "completed"]

\* what the completed branch adds to updates once the video is stored
StoredUpdates(key) ==
  [status |-> "completed", video_url |-> PublicUrl(key)]

\* downloadAndStoreVideo: storage.uploadVideo with upsert
Upload(p) ==
  /\ pc[p] = "upload"
  /\ uploads' = [uploads EXCEPT ![p] = @ + 1]
  /\ LET key == VideoKey(gid[p], generation[p].openai_job_id) IN
     \/ /\ videoStore' = videoStore \cup {key}
        /\ updates' = [updates EXCEPT ![p] = updates[p] @@ StoredUpdates(key)]
     \/ \E e \in UploadErrors :
          /\ updates' = [updates EXCEPT ![p] = updates[p] @@ FailedUpdates(e)]
          /\ UNCHANGED videoStore
  /\ pc' = [pc EXCEPT ![p] = "update"]
  /\ UNCHANGED <<db, createVars, gid, generation, result, ret,
                 polled, downloads, interfered, overlapped, calls, last>>
  /\ UNCHANGED <<uiVars, auxVars>>

\* variant: the update is an upsert, a row that is gone is written anew
UpdateUpserts(p) ==
  /\ pc[p] = "update"
  /\ db' = IF Exists(gid[p])
           THEN [db EXCEPT ![gid[p]] = Merge(@, updates[p])]
           ELSE db @@ (gid[p] :> Merge(NoGen, updates[p]))
  /\ pc' = [pc EXCEPT ![p] = "reread"]
  /\ interfered' = Touch(p, gid[p])
  /\ UNCHANGED <<result, ret, last>>
  /\ UNCHANGED <<videoStore, createVars, gid, generation, updates, polled, downloads,
                 uploads, overlapped, countVars>>
  /\ UNCHANGED <<uiVars, auxVars>>

\* database.updateVideoGeneration(generationId, updates); it throws when the
\* row is gone and the outer catch then returns the first read
Update(p) ==
  /\ pc[p] = "update"
  /\ IF Exists(gid[p])
     THEN /\ db' = [db EXCEPT ![gid[p]] = Merge(@, updates[p])]
          /\ pc' = [pc EXCEPT ![p] = "reread"]
          /\ interfered' = Touch(p, gid[p])
          /\ UNCHANGED <<result, ret, last>>
     ELSE /\ Finish(p, "returned", generation[p], polled[p])
          /\ UNCHANGED <<db, interfered>>
  /\ UNCHANGED <<videoStore, createVars, gid, generation, updates, polled, downloads,
                 uploads,                  overlapped, countVars>>
  /\ UNCHANGED <<uiVars, auxVars>>

\* the closing database.getVideoGeneration
Reread(p) ==
  /\ pc[p] = "reread"
  /\ IF Exists(gid[p])
     THEN Finish(p, "returned", db[gid[p]], polled[p])
     ELSE Finish(p, "returned", generation[p], polled[p])
  /\ UNCHANGED <<db, videoStore, createVars, gid, generation, updates, polled,
                 downloads, uploads, interfered, overlapped, countVars>>
  /\ UNCHANGED <<uiVars, auxVars>>

\* the caller has taken the outcome; the locals of the call are dropped
Return(p) ==
  /\ pc[p] = "done"
  /\ pc' = [pc EXCEPT ![p] = "idle"]
  /\ gid' = [gid EXCEPT ![p] = NullId]
  /\ generation' = [generation EXCEPT ![p] = NoGen]
  /\ updates' = [updates EXCEPT ![p] = NoUpdates]
  /\ result' = [result EXCEPT ![p] = "none"]
  /\ ret' = [ret EXCEPT ![p] = NoGen]
  /\ polled' = [polled EXCEPT ![p] = "none"]
  /\ downloads' = [downloads EXCEPT ![p] = 0]
  /\ uploads' = [uploads EXCEPT ![p] = 0]
  /\ interfered' = [interfered EXCEPT ![p] = FALSE]
  /\ overlapped' = [overlapped EXCEPT ![p] = FALSE]
  /\ UNCHANGED <<db, videoStore, createVars, countVars, last>>
  /\ UNCHANGED <<uiVars, auxVars>>

CheckVideoStatus(p) ==
  \/ \E id \in JobIds : Invoke(p, id)
  \/ Get(p)
  \/ FetchThrows(p)
  \/ Fetch(p)
  \/ Download(p)
  \/ Upload(p)
  \/ Update(p)
  \/ Reread(p)
  \/ Return(p)

(* --------------------------------------------------------- GeneratorPage *)
\* loadGenerations on mount: setGenerations(listVideoGenerations())
LoadGenerations ==
  /\ loading
  /\ generations' = db
  /\ loading' = FALSE
  /\ UNCHANGED <<db, videoStore, createVars, callVars, interfered, overlapped,
                 countVars, last, passLog, timerVars, auxVars>>

\* variant: the pass polls every listed row
PendingEveryRow == DOMAIN generations

\* the listed rows the pass polls
Pending == {i \in DOMAIN generations : generations[i].status \in {"processing", "pending"}}

\* the pending job the p-th call of a pass is for
JobOf(p) == CHOOSE i \in Pending : Cardinality({j \in Pending : j <= i}) = p

\* checkPendingGenerations up to Promise.all: pending.map has called
\* checkVideoStatus for every pending row; one pass runs at a time
StartPass ==
  /\ \A p \in Procs : pc[p] = "idle"
  /\ Pending # {}
  /\ Cardinality(Pending) <= NumProcs
  /\ LET n == Cardinality(Pending) IN
       /\ pc' = [p \in Procs |-> IF p <= n THEN "get" ELSE "idle"]
       /\ gid' = [p \in Procs |-> IF p <= n THEN JobOf(p) ELSE NullId]
  /\ passLog' = [i \in Pending |-> [st |-> "invoked", row |-> NoGen]]
  /\ UNCHANGED <<db, videoStore, createVars, generation, updates, result, ret,
                 polled, downloads, uploads, interfered, overlapped, last,
                 generations, loading, timerVars, auxVars>>

\* a pass whose calls count against MaxCalls
CheckPendingGenerations ==
  /\ calls + Cardinality(Pending) <= MaxCalls
  /\ StartPass
  /\ calls' = calls + Cardinality(Pending)

\* the polling effect: it runs checkPendingGenerations whenever the list has
\* changed and holds a pending row, and every 5 seconds after that
AutoPoll ==
  /\ StartPass
  /\ UNCHANGED calls

\* the locals of a settled call are dropped
Drop(p) ==
  /\ pc' = [pc EXCEPT ![p] = "idle"]
  /\ gid' = [gid EXCEPT ![p] = NullId]
  /\ generation' = [generation EXCEPT ![p] = NoGen]
  /\ updates' = [updates EXCEPT ![p] = NoUpdates]
  /\ result' = [result EXCEPT ![p] = "none"]
  /\ ret' = [ret EXCEPT ![p] = NoGen]
  /\ polled' = [polled EXCEPT ![p] = "none"]
  /\ downloads' = [downloads EXCEPT ![p] = 0]
  /\ uploads' = [uploads EXCEPT ![p] = 0]
  /\ interfered' = [interfered EXCEPT ![p] = FALSE]
  /\ overlapped' = [overlapped EXCEPT ![p] = FALSE]

\* variant: the results are applied only once Promise.all has resolved, so a
\* call that threw leaves the whole pass without effect
ApplyAfterAll(p) ==
  /\ pc[p] = "done"
  /\ \A q \in Procs : pc[q] \in {"idle", "done"}
  /\ IF \E q \in Procs : pc[q] = "done" /\ result[q] = "threw"
     THEN /\ passLog' = [i \in DOMAIN passLog |-> [st |-> "dropped", row |-> NoGen]]
          /\ UNCHANGED generations
     ELSE /\ generations' = [i \in DOMAIN generations |->
                               IF i = gid[p] THEN ret[p] ELSE generations[i]]
          /\ passLog' = [passLog EXCEPT ![gid[p]] = [st |-> "applied", row |-> ret[p]]]
  /\ Drop(p)
  /\ UNCHANGED <<db, videoStore, createVars, countVars, last, loading, timerVars, auxVars>>

\* the body of pending.map after the await: setGenerations replaces the row by
\* the returned one; a call that threw is caught and logged
Apply(p) ==
  /\ pc[p] = "done"
  /\ IF result[p] = "returned"
     THEN /\ generations' = [i \in DOMAIN generations |->
                               IF i = gid[p] THEN ret[p] ELSE generations[i]]
          /\ passLog' = [passLog EXCEPT ![gid[p]] = [st |-> "applied", row |-> ret[p]]]
     ELSE /\ passLog' = [passLog EXCEPT ![gid[p]] = [st |-> "threw", row |-> NoGen]]
          /\ UNCHANGED generations
  /\ Drop(p)
  /\ UNCHANGED <<db, videoStore, createVars, countVars, last, loading, timerVars, auxVars>>

\* deleteVideoGeneration(generationId), issued from another page or tab
DeleteVideoGeneration(id) ==
  /\ Exists(id)
  /\ db' = [i \in DOMAIN db \ {id} |-> db[i]]
  /\ interfered' = Touch(0, id)
  /\ UNCHANGED <<videoStore, createVars, callVars, overlapped, countVars, last,
                 uiVars, auxVars>>

\* rows as two finished createVideoGeneration calls leave them
ProcessingRow(id) ==
  Merge([NoGen EXCEPT !.status = "pending"], SubmitUpdates(SubmitResponse, id))
RejectedRow(e) ==
  Merge([NoGen EXCEPT !.status = "pending"], FailedUpdates(e))

InitPoll ==
  /\ \E rejected \in SUBSET JobIds : \E e \in SubmitErrors :
       db = [i \in JobIds |-> IF i \in rejected THEN RejectedRow(e) ELSE ProcessingRow(i)]
  /\ videoStore = {}
  /\ nextId = MaxJobs + 1
  /\ cpc = "idle"
  /\ cid = NullId
  /\ cresult = "none"
  /\ cerror = NullMsg
  /\ pc = [p \in Procs |-> "idle"]
  /\ gid = [p \in Procs |-> NullId]
  /\ generation = [p \in Procs |-> NoGen]
  /\ updates = [p \in Procs |-> NoUpdates]
  /\ result = [p \in Procs |-> "none"]
  /\ ret = [p \in Procs |-> NoGen]
  /\ polled = [p \in Procs |-> "none"]
  /\ downloads = [p \in Procs |-> 0]
  /\ uploads = [p \in Procs |-> 0]
  /\ interfered = [p \in Procs |-> FALSE]
  /\ calls = 0
  /\ last = [i \in JobIds |-> NoLast]
  /\ overlapped = [p \in Procs |-> FALSE]
  /\ generations = << >>
  /\ loading = TRUE
  /\ passLog = << >>
  /\ tpc = "waiting"
  /\ todo = {}
  /\ AuxIdle

PollStep(p) ==
  \/ Get(p)
  \/ FetchThrows(p)
  \/ Fetch(p)
  \/ Download(p)
  \/ Upload(p)
  \/ Update(p)
  \/ Reread(p)
  \/ Apply(p)

NextPoll ==
  \/ LoadGenerations
  \/ CheckPendingGenerations
  \/ \E id \in JobIds : DeleteVideoGeneration(id)
  \/ \E p \in Procs : PollStep(p)

SpecPoll == InitPoll /\ [][NextPoll]_vars

\* soraAPI.getVideo for job id resolved with a terminal status
FetchSettled(p, id) ==
  /\ gid[p] = id
  /\ Fetch(p)
  /\ polled'[p] \in {"completed", "failed"}

NextLive ==
  \/ LoadGenerations
  \/ AutoPoll
  \/ \E p \in Procs : PollStep(p)

\* the effects and the interval run, every call goes on, and for every job
\* the remote in the end answers with 'completed' or 'failed'
FairLive ==
  /\ WF_vars(LoadGenerations)
  /\ WF_vars(AutoPoll)
  /\ \A p \in Procs : WF_vars(PollStep(p))
  /\ \A id \in JobIds : SF_vars(\E p \in Procs : FetchSettled(p, id))

SpecLive == InitPoll /\ [][NextLive]_vars /\ FairLive

(* ------------------------------------------- pages/GeneratorPage.tsx *)
\* useState<VideoGeneration[]>([]): the list of the first render
InitialGenerations == << >>

PendingOf(list) == {i \in DOMAIN list : list[i].status \in {"processing", "pending"}}

\* the interval set up by the mount effect fires
TimerTick ==
  /\ tpc = "waiting"
  /\ tpc' = "fired"
  /\ UNCHANGED <<db, videoStore, createVars, callVars, interfered, overlapped,
                 countVars, last, generations, loading, passLog, todo, auxVars>>

\* checkPendingGenerations up to its loop, reading the list of its render
StartLoop(list) ==
  IF PendingOf(list) = {}
  THEN UNCHANGED todo
  ELSE todo = {} /\ todo' = PendingOf(list)

\* the interval's callback: the mount effect has no dependencies, so it is
\* checkPendingGenerations of the first render that runs
TimerCheck ==
  /\ tpc = "fired"
  /\ tpc' = "waiting"
  /\ StartLoop(InitialGenerations)
  /\ UNCHANGED <<db, videoStore, createVars, callVars, interfered, overlapped,
                 countVars, last, generations, loading, passLog, auxVars>>

\* handleManualRefresh: checkPendingGenerations of the current render; the
\* button shows while a row is pending and is disabled while a loop runs
HandleManualRefresh ==
  /\ PendingOf(generations) # {}
  /\ todo = {} /\ pc[1] = "idle"
  /\ StartLoop(generations)
  /\ UNCHANGED <<db, videoStore, createVars, callVars, interfered, overlapped,
                 countVars, last, generations, loading, passLog, tpc, auxVars>>

\* the row the loop checks next: the list is ordered newest first
NextOf(ids) == CHOOSE i \in ids : \A j \in ids : j <= i

\* for (const gen of pending): await videoService.checkVideoStatus(gen.id)
LoopCall ==
  /\ todo # {}
  /\ Invoke(1, NextOf(todo))

\* the rest of the loop body: setGenerations replaces the row by the returned
\* one; a call that threw is caught and logged
LoopApply ==
  /\ pc[1] = "done"
  /\ gid[1] \in todo
  /\ IF result[1] = "returned"
     THEN generations' = [i \in DOMAIN generations |->
                            IF i = gid[1] THEN ret[1] ELSE generations[i]]
     ELSE UNCHANGED generations
  /\ todo' = todo \ {gid[1]}
  /\ Drop(1)
  /\ UNCHANGED <<db, videoStore, createVars, countVars, last, loading, passLog, tpc, auxVars>>

LoopStep ==
  \/ LoopCall
  \/ Get(1)
  \/ FetchThrows(1)
  \/ Fetch(1)
  \/ Download(1)
  \/ Upload(1)
  \/ Update(1)
  \/ Reread(1)
  \/ LoopApply

NextTimer ==
  \/ LoadGenerations
  \/ TimerTick
  \/ TimerCheck
  \/ HandleManualRefresh
  \/ LoopStep

\* the interval keeps firing, every call goes on, and for every job the
\* remote in the end answers with 'completed' or 'failed'; nobody has to
\* press the refresh button
FairTimer ==
  /\ WF_vars(LoadGenerations)
  /\ WF_vars(TimerTick)
  /\ WF_vars(TimerCheck)
  /\ WF_vars(LoopStep)
  /\ \A id \in JobIds : SF_vars(FetchSettled(1, id))

SpecTimer == InitPoll /\ [][NextTimer]_vars /\ FairTimer

\* one caller reconciling the rows again and again, one call after the other
ReconcileStep ==
  \/ \E id \in JobIds : Invoke(1, id)
  \/ Get(1)
  \/ FetchThrows(1)
  \/ FetchAny(1)
  \/ Download(1)
  \/ Upload(1)
  \/ Update(1)
  \/ Reread(1)
  \/ Return(1)

SpecReconcile == InitPoll /\ [][ReconcileStep]_vars

(* ------------------------------------------------ lib/video-service.ts *)
\* if (Object.keys(updates).length > 1) update(updates).eq('id', generationId);
\* an error of the update is logged and the call goes on
UpdateLegacy(p) ==
  /\ pc[p] = "update"
  /\ IF Cardinality(DOMAIN updates[p]) > 1 /\ Exists(gid[p])
     THEN /\ db' = [db EXCEPT ![gid[p]] = Merge(@, updates[p])]
          /\ interfered' = Touch(p, gid[p])
     ELSE UNCHANGED <<db, interfered>>
  /\ pc' = [pc EXCEPT ![p] = "reread"]
  /\ UNCHANGED <<videoStore, createVars, gid, generation, updates, result, ret,
                 polled, downloads, uploads, overlapped, countVars, last>>
  /\ UNCHANGED <<uiVars, auxVars>>

\* the closing select().single(): return updatedData!
RereadLegacy(p) ==
  /\ pc[p] = "reread"
  /\ IF Exists(gid[p])
     THEN Finish(p, "returned", db[gid[p]], polled[p])
     ELSE Finish(p, "returned", NoGen, polled[p])
  /\ UNCHANGED <<db, videoStore, createVars, gid, generation, updates, polled,
                 downloads, uploads, interfered, overlapped, countVars>>
  /\ UNCHANGED <<uiVars, auxVars>>

LegacyStep ==
  \/ \E id \in JobIds : Invoke(1, id)
  \/ Get(1)
  \/ FetchThrows(1)
  \/ FetchAny(1)
  \/ Download(1)
  \/ Upload(1)
  \/ UpdateLegacy(1)
  \/ RereadLegacy(1)
  \/ Return(1)

SpecLegacy == InitPoll /\ [][LegacyStep]_vars

(* ------------------------------------------------ deleteVideoGeneration *)
\* the ids a caller may ask to delete: those of the rows, and one that never
\* had a row
DeleteIds == 1..(MaxJobs + 1)

\* variant: a delete that matches no row throws
DeleteCallStrict(id) ==
  /\ did = NullId
  /\ did' = id
  /\ dcount' = IF Exists(id) THEN 1 ELSE 0
  /\ db' = [i \in DOMAIN db \ {id} |-> db[i]]
  /\ dresult' = IF Exists(id) THEN "returned" ELSE "threw"
  /\ interfered' = IF Exists(id) THEN Touch(0, id) ELSE interfered
  /\ UNCHANGED <<videoStore, createVars, callVars, overlapped, countVars, last,
                 uiVars, clientVars, utilVars, imageVars, accountVars>>

\* VideoService.deleteVideoGeneration(id): delete().eq('id', id) removes the
\* rows that match, none included, and the call throws only on an error of
\* the table
DeleteCall(id) ==
  /\ did = NullId
  /\ did' = id
  /\ dcount' = IF Exists(id) THEN 1 ELSE 0
  /\ db' = [i \in DOMAIN db \ {id} |-> db[i]]
  /\ dresult' = "returned"
  /\ interfered' = IF Exists(id) THEN Touch(0, id) ELSE interfered
  /\ UNCHANGED <<videoStore, createVars, callVars, overlapped, countVars, last,
                 uiVars, clientVars, utilVars, imageVars, accountVars>>

\* the caller has taken the outcome of the delete
DeleteReturn ==
  /\ did # NullId
  /\ did' = NullId
  /\ dcount' = 0
  /\ dresult' = "none"
  /\ UNCHANGED <<db, videoStore, createVars, callVars, interfered, overlapped,
                 countVars, last, uiVars, clientVars, utilVars, imageVars, accountVars>>

\* rows being reconciled by one caller and deleted by another
NextDelete ==
  \/ CheckVideoStatus(1)
  \/ \E id \in DeleteIds : DeleteCall(id)
  \/ DeleteReturn

SpecDelete == InitPoll /\ [][NextDelete]_vars

(* -------------------------------------------------------- image-utils *)
\* the state of everything but the image-utils call
notUtil ==
  <<db, videoStore, createVars, callVars, interfered, overlapped, countVars, last,
    uiVars, clientVars, deleteVars, imageVars, accountVars>>

InitUtil ==
  /\ ServiceIdle
  /\ ImageIdle
  /\ AccountIdle
  /\ apiKey = NoKey
  /\ storedKey = NoKey
  /\ model = "sora-2"
  /\ resolution = "1280x720"
  /\ requests = {}
  /\ did = NullId /\ dcount = 0 /\ dresult = "none"
  /\ out = NotCalled

\* Math.round(a / b) for a >= 0 and b > 0.  The code rounds a product of
\* doubles: where a / b lies half-way between two integers the double may
\* fall on either side, so both neighbours are results
Round(a, b) ==
  IF (2 * a) % b = 0 /\ a % b # 0
  THEN {a \div b, a \div b + 1}
  ELSE {(2 * a + b) \div (2 * b)}

\* variant: the scale is the larger of the two ratios
ScaleCover(srcWidth, srcHeight, targetWidth, targetHeight) ==
  IF targetWidth * srcHeight >= targetHeight * srcWidth
  THEN <<targetWidth, srcWidth>>
  ELSE <<targetHeight, srcHeight>>

\* Math.min(targetWidth / srcWidth, targetHeight / srcHeight), as <<num, den>>
Scale(srcWidth, srcHeight, targetWidth, targetHeight) ==
  IF targetWidth * srcHeight <= targetHeight * srcWidth
  THEN <<targetWidth, srcWidth>>
  ELSE <<targetHeight, srcHeight>>

\* what computeContainFit may give: Threw, or the rectangles it may return
computeContainFit(srcWidth, srcHeight, targetWidth, targetHeight) ==
  IF srcWidth <= 0 \/ srcHeight <= 0 \/ targetWidth <= 0 \/ targetHeight <= 0
  THEN {Threw}
  ELSE LET scale == Scale(srcWidth, srcHeight, targetWidth, targetHeight) IN
       {Returned([scale |-> scale, drawWidth |-> drawWidth, drawHeight |-> drawHeight,
                  dx |-> (targetWidth - drawWidth) \div 2,
                  dy |-> (targetHeight - drawHeight) \div 2]) :
          drawWidth \in Round(srcWidth * scale[1], scale[2]),
          drawHeight \in Round(srcHeight * scale[1], scale[2])}

Dims == (-1)..MaxDim

InitFit ==
  /\ InitUtil
  /\ args \in Dims \X Dims \X Dims \X Dims

ComputeContainFit ==
  /\ out = NotCalled
  /\ out' \in computeContainFit(args[1], args[2], args[3], args[4])
  /\ UNCHANGED args
  /\ UNCHANGED notUtil

SpecFit == InitFit /\ [][ComputeContainFit]_vars

\* the characters of a resolution string: digits, the separator, a letter
\* and a sign
Digits == {"0", "1", "2"}
ResolutionChars == Digits \cup {"x", "a", "-"}
ResolutionStrings == StringsOver(ResolutionChars, MaxLen)

\* resolution.split('x'): the pieces between the separators, empty ones
\* included
RECURSIVE Split(_)
Split(str) ==
  IF \A i \in 1..Len(str) : str[i] # "x"
  THEN <<str>>
  ELSE LET k == CHOOSE i \in 1..Len(str) :
                  str[i] = "x" /\ \A j \in 1..(i - 1) : str[j] # "x"
       IN <<SubSeq(str, 1, k - 1)>> \o Split(SubSeq(str, k + 1, Len(str)))

DigitValue(c) == IF c = "0" THEN 0 ELSE IF c = "1" THEN 1 ELSE 2

\* the value of a string of decimal digits
RECURSIVE Decimal(_)
Decimal(str) ==
  IF str = << >> THEN 0
  ELSE 10 * Decimal(SubSeq(str, 1, Len(str) - 1)) + DigitValue(str[Len(str)])

IsDigits(str) == str # << >> /\ \A i \in 1..Len(str) : str[i] \in Digits

\* Number(v) of a piece: 0 for the empty string, the value of an optionally
\* signed string of digits, NaN for anything else
NaN == [nan |-> TRUE, val |-> 0]
Num(n) == [nan |-> FALSE, val |-> n]
Number(v) ==
  IF v = << >> THEN Num(0)
  ELSE IF IsDigits(v) THEN Num(Decimal(v))
  ELSE IF Head(v) = "-" /\ IsDigits(Tail(v)) THEN Num(0 - Decimal(Tail(v)))
  ELSE NaN

\* !w for a destructured number: undefined, NaN and 0 are falsy
Falsy(parts, i) == i > Len(parts) \/ Number(parts[i]).nan \/ Number(parts[i]).val = 0

\* variant: only the width is tested
parseResolutionWidthOnly(str) ==
  LET parts == Split(str) IN
    IF Falsy(parts, 1)
    THEN Threw
    ELSE Returned([width |-> Number(parts[1]).val,
                   height |-> IF Len(parts) < 2 THEN 0 ELSE Number(parts[2]).val])

parseResolution(str) ==
  LET parts == Split(str) IN
    IF Falsy(parts, 1) \/ Falsy(parts, 2)
    THEN Threw
    ELSE Returned([width |-> Number(parts[1]).val, height |-> Number(parts[2]).val])

InitParse ==
  /\ InitUtil
  /\ args \in ResolutionStrings

ParseResolution ==
  /\ out = NotCalled
  /\ out' = parseResolution(args)
  /\ UNCHANGED args
  /\ UNCHANGED notUtil

SpecParse == InitParse /\ [][ParseResolution]_vars

(* ------------------------------------------------------ lib/sora-api.ts *)
SoraModels == {"sora-2", "sora-2-pro"}
Resolutions == {"1280x720", "720x1280", "1792x1024", "1024x1792"}

\* RESOLUTION_OPTIONS: the models each resolution is offered for
RESOLUTION_OPTIONS ==
  [r \in Resolutions |->
     IF r \in {"1280x720", "720x1280"} THEN {"sora-2", "sora-2-pro"} ELSE {"sora-2-pro"}]

\* VideoGenerationRequest, as far as model and resolution go
VideoGenerationRequests == [model : SoraModels, resolution : Resolutions]
InputReferences == {"none", "file"}

\* a key is a string of blanks and other characters
KeyChars == {" ", "k"}
Keys == StringsOver(KeyChars, MaxKeyLen)

\* everything but the state of the client
notClient ==
  <<db, videoStore, createVars, callVars, interfered, overlapped, countVars, last,
    uiVars, deleteVars, utilVars, imageVars, accountVars>>

\* fetch(url, {headers: {Authorization: `Bearer ${this.apiKey}`}, ...})
Send(request) ==
  /\ apiKey # NoKey
  /\ Cardinality(requests \cup {request}) <= MaxRequests
  /\ requests' = requests \cup {request}
  /\ UNCHANGED <<apiKey, storedKey, model, resolution>>
  /\ UNCHANGED notClient

RequestTo(endpoint) ==
  [endpoint |-> endpoint, auth |-> apiKey, model |-> "-", size |-> "-", body |-> "-"]

\* createVideo: the POST goes out as multipart with an input reference and
\* as JSON without; model and size are those of the request
CreateVideo(request, inputReference) ==
  Send([endpoint |-> "POST /videos", auth |-> apiKey,
        model |-> request.model, size |-> request.resolution,
        body |-> IF inputReference # "none" THEN "multipart" ELSE "json"])

GetVideo == Send(RequestTo("GET /videos/{id}"))
ListVideos == Send(RequestTo("GET /videos"))
DownloadContent == Send(RequestTo("GET /videos/{id}/content"))
TestConnection == Send(RequestTo("GET /models"))

RECURSIVE TrimStart(_), TrimEnd(_)
TrimStart(str) ==
  IF str # << >> /\ Head(str) = " " THEN TrimStart(Tail(str)) ELSE str
TrimEnd(str) ==
  IF str # << >> /\ str[Len(str)] = " " THEN TrimEnd(SubSeq(str, 1, Len(str) - 1)) ELSE str
\* String.prototype.trim
Trim(str) == TrimEnd(TrimStart(str))

\* new SoraAPI(apiKey): the key is stored as given
NewSoraAPI(key) ==
  /\ apiKey' = key
  /\ requests' = {}
  /\ UNCHANGED <<storedKey, model, resolution>>
  /\ UNCHANGED notClient

\* the client used as a library: any key, any request of the declared types
NextClient ==
  \/ \E key \in Keys : NewSoraAPI(key)
  \/ \E request \in VideoGenerationRequests, ref \in InputReferences :
       CreateVideo(request, ref)
  \/ GetVideo
  \/ ListVideos
  \/ DownloadContent
  \/ TestConnection

SpecClient == Init /\ [][NextClient]_vars

(* ------------------------------------- App, ApiKeyInput, the form *)
\* const normalizeApiKey = (key) => key?.trim() || ''
normalizeApiKey(key) == IF key = NoKey THEN << >> ELSE Trim(key)

\* the effect on [model, resolution] of VideoGenerationForm
FormEffect(m, r) ==
  IF m = "sora-2" /\ r \in {"1792x1024", "1024x1792"} THEN "1280x720" ELSE r

\* availableResolutions
AvailableResolutions(m) == {r \in Resolutions : m \in RESOLUTION_OPTIONS[r]}

\* App mounts: the mount effect takes the stored key if it is not blank, and
\* the effect on [apiKey] builds the VideoService; the form renders anew
Mount ==
  /\ LET stored == normalizeApiKey(storedKey) IN
       IF stored # << >>
       THEN storedKey' = stored /\ apiKey' = stored
       ELSE storedKey' = NoKey /\ apiKey' = NoKey
  /\ requests' = {}
  /\ model' = "sora-2"
  /\ resolution' = "1280x720"
  /\ UNCHANGED notClient

\* App.handleApiKeySubmit
HandleApiKeySubmit(key) ==
  LET normalizedKey == normalizeApiKey(key) IN
    IF normalizedKey = << >>
    THEN storedKey' = NoKey /\ apiKey' = NoKey
    ELSE storedKey' = normalizedKey /\ apiKey' = normalizedKey

\* ApiKeyInput.handleSubmit with the text typed; the input shows while the
\* app has no key
HandleSubmit(text) ==
  /\ apiKey = NoKey
  /\ IF Trim(text) # << >>
     THEN HandleApiKeySubmit(Trim(text))
     ELSE UNCHANGED <<storedKey, apiKey>>
  /\ requests' = {}
  /\ UNCHANGED <<model, resolution>>
  /\ UNCHANGED notClient

\* App.handleLogout
HandleLogout ==
  /\ apiKey # NoKey
  /\ storedKey' = NoKey
  /\ apiKey' = NoKey
  /\ UNCHANGED <<model, resolution, requests>>
  /\ UNCHANGED notClient

\* the model select changes, and the effect has run before the next event
SetModel(m) ==
  /\ apiKey # NoKey
  /\ model' = m
  /\ resolution' = FormEffect(m, resolution)
  /\ UNCHANGED <<apiKey, storedKey, requests>>
  /\ UNCHANGED notClient

\* the resolution select offers availableResolutions
SetResolution(r) ==
  /\ apiKey # NoKey
  /\ r \in AvailableResolutions(model)
  /\ resolution' = FormEffect(model, r)
  /\ UNCHANGED <<apiKey, storedKey, model, requests>>
  /\ UNCHANGED notClient

\* the form's handleSubmit, GeneratorPage.handleGenerate and
\* createVideoGeneration pass model and resolution on to createVideo; the
\* image file, if the form has one, goes in the request and createVideo gets
\* no input reference
HandleGenerate(ref) ==
  CreateVideo([model |-> model, resolution |-> resolution], "none")

InitApp ==
  /\ ServiceIdle
  /\ ImageIdle
  /\ AccountIdle
  /\ apiKey = NoKey
  /\ storedKey \in Keys \cup {NoKey}
  /\ model = "sora-2"
  /\ resolution = "1280x720"
  /\ requests = {}
  /\ did = NullId /\ dcount = 0 /\ dresult = "none"
  /\ args = << >> /\ out = NotCalled

NextApp ==
  \/ Mount
  \/ \E text \in Keys : HandleSubmit(text)
  \/ HandleLogout
  \/ \E m \in SoraModels : SetModel(m)
  \/ \E r \in Resolutions : SetResolution(r)
  \/ \E ref \in InputReferences : HandleGenerate(ref)
  \/ GetVideo
  \/ DownloadContent
  \/ TestConnection

SpecApp == InitApp /\ [][NextApp]_vars

(* ------------------------------------------------------------ src/App.tsx *)
\* the mount effect of src/App.tsx: if (storedKey) the key is taken as stored
MountStored ==
  /\ IF storedKey \notin {NoKey, << >>}
     THEN apiKey' = storedKey
     ELSE apiKey' = NoKey
  /\ requests' = {}
  /\ model' = "sora-2"
  /\ resolution' = "1280x720"
  /\ UNCHANGED storedKey
  /\ UNCHANGED notClient

\* ApiKeyInput.handleSubmit storing the trimmed text, then handleApiKeySubmit
\* of src/App.tsx taking it as given
HandleSubmitStored(text) ==
  /\ apiKey = NoKey
  /\ IF Trim(text) # << >>
     THEN storedKey' = Trim(text) /\ apiKey' = Trim(text)
     ELSE UNCHANGED <<storedKey, apiKey>>
  /\ requests' = {}
  /\ UNCHANGED <<model, resolution>>
  /\ UNCHANGED notClient

NextAppStored ==
  \/ MountStored
  \/ \E text \in Keys : HandleSubmitStored(text)
  \/ \E m \in SoraModels : SetModel(m)
  \/ \E r \in Resolutions : SetResolution(r)
  \/ \E ref \in InputReferences : HandleGenerate(ref)
  \/ GetVideo
  \/ DownloadContent
  \/ TestConnection

SpecAppStored == InitApp /\ [][NextAppStored]_vars

(* ------------------------- createVideoGeneration with a reference image *)
Files == {"cat.png"}
ImageUploadErrors == {"Failed to upload image: storage unavailable"}

\* VideoGenerationRequest: prompt, model, resolution, duration
CreateRequests ==
  [prompt : {"a cat"}, model : SoraModels, resolution : {"1280x720"}, duration : {4}]

\* `${imageUploadPath}${Date.now()}-${random}.${fileExt}`: a path no earlier
\* upload has used
ImagePath == <<"uploads/", Cardinality(imageStore) + 1>>

\* dbRecord: the columns createVideoGeneration inserts
dbRecord(request, url, filename) ==
  [NoGen EXCEPT !.status = "pending"] @@
    [prompt |-> request.prompt, model |-> request.model,
     resolution |-> request.resolution, duration |-> request.duration,
     image_url |-> url, image_filename |-> filename]

\* videoRequest: {...request, imageUrl: imageUrl || undefined, imageFile}
videoRequest(request, url, file) ==
  [prompt |-> request.prompt, model |-> request.model,
   resolution |-> request.resolution, duration |-> request.duration,
   imageUrl |-> url, imageFile |-> file]

\* SoraAPI.createVideo(request, inputReference): multipart with the input
\* reference if one is passed, else JSON, with request.imageUrl as its image
\* field if the request has one
createVideoBody(request, inputReference) ==
  IF inputReference # "none"
  THEN [body |-> "multipart", image |-> NullUrl]
  ELSE [body |-> "json", image |-> request.imageUrl]

\* createVideoGeneration(request, imageFile) is called: with a file it goes
\* to uploadImage, without one to the insert
CreateStart(request, file) ==
  /\ cpc = "idle"
  /\ nextId <= MaxCreates
  /\ crequest' = request
  /\ imageFile' = file
  /\ imageUrl' = NullUrl
  /\ posted' = NoPost
  /\ cid' = NullId
  /\ cresult' = "none"
  /\ cerror' = NullMsg
  /\ cpc' = IF file # NoFile THEN "upload" ELSE "insert"
  /\ UNCHANGED <<db, videoStore, nextId, callVars, interfered, overlapped,
                 countVars, last, uiVars>>
  /\ UNCHANGED <<clientVars, deleteVars, utilVars, imageStore, accountVars>>

\* variant: a failed image upload is logged and the call goes on without
\* the image
CreateUploadImageGoesOn ==
  /\ cpc = "upload"
  /\ \/ /\ imageStore' = imageStore \cup {ImagePath}
        /\ imageUrl' = ImagePath
        /\ UNCHANGED cerror
     \/ /\ \E e \in ImageUploadErrors : cerror' = e
        /\ UNCHANGED <<imageStore, imageUrl>>
  /\ cpc' = "insert"
  /\ UNCHANGED <<db, videoStore, nextId, cid, cresult, callVars, interfered,
                 overlapped, countVars, last, uiVars>>
  /\ UNCHANGED <<clientVars, deleteVars, utilVars, crequest, imageFile, posted,
                 accountVars>>

\* uploadImage: storage.uploadImage stores the file and the call goes on
\* with its public URL, or it fails and createVideoGeneration throws
CreateUploadImage ==
  /\ cpc = "upload"
  /\ \/ /\ imageStore' = imageStore \cup {ImagePath}
        /\ imageUrl' = ImagePath
        /\ cpc' = "insert"
        /\ UNCHANGED <<cresult, cerror>>
     \/ /\ \E e \in ImageUploadErrors : cerror' = e
        /\ cresult' = "threw"
        /\ cpc' = "idle"
        /\ UNCHANGED <<imageStore, imageUrl>>
  /\ UNCHANGED <<db, videoStore, nextId, cid, callVars, interfered,
                 overlapped, countVars, last, uiVars>>
  /\ UNCHANGED <<clientVars, deleteVars, utilVars, crequest, imageFile, posted,
                 accountVars>>

\* database.createVideoGeneration(dbRecord)
CreateInsertRecord ==
  /\ cpc = "insert"
  /\ db' = db @@ (nextId :> dbRecord(crequest, imageUrl,
                                     IF imageFile # NoFile THEN imageFile ELSE NullMsg))
  /\ cid' = nextId
  /\ nextId' = nextId + 1
  /\ cpc' = "post"
  /\ UNCHANGED <<videoStore, cresult, cerror, callVars, interfered, overlapped,
                 countVars, last, uiVars, auxVars>>

\* soraAPI.createVideo(videoRequest) sends the POST; no second argument is
\* passed
CreatePost ==
  /\ cpc = "post"
  /\ LET sent == createVideoBody(videoRequest(crequest, imageUrl, imageFile), "none") IN
       /\ posted' = sent
       /\ requests' = requests \cup
            {[endpoint |-> "POST /videos", auth |-> apiKey, model |-> crequest.model,
              size |-> crequest.resolution, body |-> sent.body]}
  /\ cpc' = "submit"
  /\ UNCHANGED <<db, videoStore, nextId, cid, cresult, cerror, callVars, interfered,
                 overlapped, countVars, last, uiVars>>
  /\ UNCHANGED <<apiKey, storedKey, model, resolution, deleteVars, utilVars,
                 crequest, imageFile, imageUrl, imageStore, accountVars>>

\* a VideoService built with a key; nothing stored
InitImage ==
  /\ ServiceIdle
  /\ ImageIdle
  /\ AccountIdle
  /\ apiKey = <<"k">>
  /\ storedKey = <<"k">>
  /\ model = "sora-2"
  /\ resolution = "1280x720"
  /\ requests = {}
  /\ did = NullId /\ dcount = 0 /\ dresult = "none"
  /\ args = << >> /\ out = NotCalled

\* creates with and without a reference image, and one caller reconciling
NextImage ==
  \/ \E request \in CreateRequests, file \in Files \cup {NoFile} : CreateStart(request, file)
  \/ CreateUploadImage
  \/ CreateInsertRecord
  \/ CreatePost
  \/ CreateSubmitOk
  \/ CreateSubmitFail
  \/ CreateCatch
  \/ ReconcileStep

SpecImage == InitImage /\ [][NextImage]_vars

(* --------------------------------------------- lib/account-service.ts *)
Amounts == 1..MaxAmount
TransactionTypes == {"deposit", "charge", "refund"}

\* everything but the account, its transactions and the calls on them
notAccount ==
  <<db, videoStore, createVars, callVars, interfered, overlapped, countVars, last,
    uiVars, clientVars, deleteVars, utilVars, imageVars>>

\* deposit, charge or refund is called with an amount; each caller makes one
\* call
AccountCall(p, type, amt) ==
  /\ apc[p] = "idle" /\ aresult[p] = "none"
  /\ apc' = [apc EXCEPT ![p] = "read"]
  /\ akind' = [akind EXCEPT ![p] = type]
  /\ amount' = [amount EXCEPT ![p] = amt]
  /\ UNCHANGED <<opening, balance, transactions, newBalance, aresult>>
  /\ UNCHANGED notAccount

\* getAccount answers, and the call computes newBalance from the balance it
\* read; charge throws 'Insufficient balance' if the balance is short
AccountRead(p) ==
  /\ apc[p] = "read"
  /\ IF akind[p] = "charge" /\ balance < amount[p]
     THEN /\ apc' = [apc EXCEPT ![p] = "done"]
          /\ aresult' = [aresult EXCEPT ![p] = "threw"]
          /\ UNCHANGED newBalance
     ELSE /\ newBalance' = [newBalance EXCEPT ![p] =
                              IF akind[p] = "charge" THEN balance - amount[p]
                              ELSE balance + amount[p]]
          /\ apc' = [apc EXCEPT ![p] = "update"]
          /\ UNCHANGED aresult
  /\ UNCHANGED <<opening, balance, transactions, akind, amount>>
  /\ UNCHANGED notAccount

\* from('accounts').update({ balance: newBalance }).eq('id', account.id)
AccountUpdate(p) ==
  /\ apc[p] = "update"
  /\ balance' = newBalance[p]
  /\ apc' = [apc EXCEPT ![p] = "insert"]
  /\ UNCHANGED <<opening, transactions, akind, amount, newBalance, aresult>>
  /\ UNCHANGED notAccount

\* from('transactions').insert({type, amount, balance_after: newBalance, ...})
AccountInsert(p) ==
  /\ apc[p] = "insert"
  /\ transactions' = Append(transactions,
       [type |-> akind[p],
        amount |-> IF akind[p] = "charge" THEN 0 - amount[p] ELSE amount[p],
        balance_after |-> newBalance[p]])
  /\ apc' = [apc EXCEPT ![p] = "done"]
  /\ aresult' = [aresult EXCEPT ![p] = "returned"]
  /\ UNCHANGED <<opening, balance, akind, amount, newBalance>>
  /\ UNCHANGED notAccount

\* an account with some balance; transactions counts the rows recorded from
\* here on
InitAccount ==
  /\ ServiceIdle
  /\ ImageIdle
  /\ CallsIdle
  /\ opening \in 0..MaxAmount
  /\ balance = opening
  /\ transactions = << >>
  /\ apiKey = NoKey
  /\ storedKey = NoKey
  /\ model = "sora-2"
  /\ resolution = "1280x720"
  /\ requests = {}
  /\ did = NullId /\ dcount = 0 /\ dresult = "none"
  /\ args = << >> /\ out = NotCalled

NextAccount ==
  \/ \E p \in Procs, type \in TransactionTypes, amt \in Amounts : AccountCall(p, type, amt)
  \/ \E p \in Procs : AccountRead(p)
  \/ \E p \in Procs : AccountUpdate(p)
  \/ \E p \in Procs : AccountInsert(p)

SpecAccount == InitAccount /\ [][NextAccount]_vars

Next ==
  \/ CreateInsert
  \/ CreateSubmitOk
  \/ CreateSubmitFail
  \/ CreateCatch
  \/ \E p \in Procs : CheckVideoStatus(p)

Spec == Init /\ [][Next]_vars

TypeOK ==
  /\ DOMAIN db \subseteq JobIds
  /\ \A i \in DOMAIN db : db[i].status \in {"pending", "processing", "completed", "failed"}

(* ================================================================ claims *)
Rows == {db[i] : i \in DOMAIN db}
Terminal == {"completed", "failed"}

\* caller p settles in this step
Settles(p) == pc[p] # "done" /\ pc'[p] = "done"

\* p settles a call the remote reported 'completed' to, no other call for its
\* row having been in flight with it, and so did the call before it
SecondOfTwo(p) ==
  /\ Settles(p)
  /\ polled[p] = "completed" /\ ~overlapped[p]
  /\ last[gid[p]].polled = "completed" /\ ~last[gid[p]].overlapped

\* the two calls issued one download and one upload and left the same video_url
OneMigration(p) ==
  /\ last[gid[p]].dl + downloads[p] = 1
  /\ last[gid[p]].ul + uploads[p] = 1
  /\ last'[gid[p]].url = last[gid[p]].url

C2_MonotonicStatus ==
  [][\A i \in DOMAIN db :
       /\ db[i].status = "processing" => db'[i].status # "pending"
       /\ db[i].status \in Terminal => db'[i].status = db[i].status]_vars

\* C3: when soraAPI.getVideo throws, the call returns the row it read at its
\* start, and the stored row still equals that read (no other writer having
\* touched the row during the call).
C3_FetchErrorLeavesRow ==
  \A p \in Procs :
    (pc[p] = "done" /\ polled[p] = "threw") =>
      /\ result[p] = "returned"
      /\ ret[p] = generation[p]
      /\ ~interfered[p] => db[gid[p]] = generation[p]

C3_Witness ==
  \E p \in Procs :
    /\ pc[p] = "done" /\ polled[p] = "threw" /\ ~interfered[p]
    /\ generation[p].status = "processing"

\* C4: when the remote submission of createVideoGeneration fails, the row the
\* call had stored is 'failed' with a non-null error_message and the call
\* raised the submission error.
C4_CreateFailure ==
  (cpc = "idle" /\ cerror # NullMsg) =>
    /\ db[cid].status = "failed"
    /\ db[cid].error_message # NullMsg
    /\ db[cid].error_message = cerror
    /\ cresult = "threw"

C4_Witness ==
  cpc = "idle" /\ cerror \in SubmitErrors /\ calls > 0

\* C5: after two checkVideoStatus calls for one job that were in flight at
\* the same time, both starting from a well-shaped row and both polling the
\* remote, have settled, the row is 'completed' with a video_url and no
\* error_message, 'failed' with an error_message and no video_url, or
\* 'processing' with neither.
C5_OverlapKeepsShape ==
  \A p, q \in Procs :
    ( /\ p # q
      /\ pc[p] = "done" /\ pc[q] = "done"
      /\ gid[p] = gid[q]
      /\ overlapped[p] /\ overlapped[q]
      /\ Shape(generation[p]) /\ Shape(generation[q])
      /\ polled[p] # "none" /\ polled[q] # "none" )
    => Shape(db[gid[p]])

\* C6: video_url is non-null only in a row whose status is 'completed', and
\* a non-null video_url is never changed or cleared.
C6_UrlOnlyWhenCompleted ==
  /\ [](\A i \in DOMAIN db : db[i].video_url # NullUrl => db[i].status = "completed")
  /\ [][\A i \in DOMAIN db :
          db[i].video_url # NullUrl => db'[i].video_url = db[i].video_url]_vars

\* C7: error_message is non-null only in a row whose status is 'failed'.
C7_ErrorOnlyWhenFailed ==
  \A i \in DOMAIN db : db[i].error_message # NullMsg => db[i].status = "failed"

\* C8 as stated: openai_job_id is non-null if and only if the status is
\* 'processing', 'completed' or 'failed'.
C8_JobIdIffPastPending ==
  \A i \in DOMAIN db :
    db[i].openai_job_id # NullId <=> db[i].status \in {"processing", "completed", "failed"}

\* C8 amended: a row with an openai_job_id is never 'pending', and a row that
\* is 'processing' or 'completed' has an openai_job_id; a 'failed' row has
\* none when the submission of createVideoGeneration was what failed.
C8_JobIdPastPending ==
  \A i \in DOMAIN db :
    /\ db[i].openai_job_id # NullId => db[i].status # "pending"
    /\ db[i].status \in {"processing", "completed"} => db[i].openai_job_id # NullId
    /\ (cpc = "idle" /\ cerror # NullMsg /\ i = cid) => db[i].openai_job_id = NullId

C8_Witness ==
  \E i \in DOMAIN db :
    db[i].status = "completed" /\ db[i].openai_job_id = RemoteIdOf(i)

C9_WitnessMigrationFailure ==
  \E p \in Procs :
    /\ pc[p] = "done" /\ result[p] = "returned"
    /\ "error_message" \in DOMAIN updates[p]
    /\ updates[p].error_message \in DownloadErrors \cup UploadErrors

\* the polling pass has run to its end
PassOver == passLog # << >> /\ \A p \in Procs : pc[p] = "idle"

\* C10: at the end of a polling pass every job of the pass has had its call,
\* and every call that returned has its row in the list, whether or not
\* another call of the pass threw.
C10_PassIsolatesThrows ==
  PassOver =>
    \A i \in DOMAIN passLog :
      \/ passLog[i].st = "threw"
      \/ passLog[i].st = "applied" /\ generations[i] = passLog[i].row

C10_Witness ==
  /\ PassOver
  /\ \E i, j \in DOMAIN passLog :
       /\ passLog[i].st = "threw"
       /\ passLog[j].st = "applied"
       /\ generations[j].status \in Terminal

\* C11: while the generator page is mounted, every row its list shows as
\* 'pending' or 'processing' is in the end shown as 'completed' or 'failed',
\* the interval firing and the remote in the end reporting a terminal status,
\* with no press of the refresh button needed.
C11_PendingShownTerminal ==
  \A i \in JobIds :
    (i \in DOMAIN generations /\ generations[i].status \in {"pending", "processing"})
      ~> (i \in DOMAIN generations /\ generations[i].status \in Terminal)

\* the payload a settled call fetched, and whether it says the job failed
Fetched(p) == updates[p].metadata
Polled(p) == pc[p] = "done" /\ polled[p] \notin {"none", "threw"} /\ ~interfered[p]
MessageOf(status) ==
  IF status.error \in {NoError, ""} THEN "Video generation failed" ELSE status.error

\* C12 as stated: after a call whose fetched payload has status 'failed' or
\* carries an error object, the row is 'failed' and its error_message is the
\* message of the error object, or the generic message when there is none.
C12_FailedOrErrorMarksFailed ==
  \A p \in Procs :
    (Polled(p) /\ (Fetched(p).status = "failed" \/ Fetched(p).error # NoError)) =>
      /\ db[gid[p]].status = "failed"
      /\ db[gid[p]].error_message = MessageOf(Fetched(p))

\* C12 amended: the same, for a payload whose status is not 'completed'.
C12_FailedOrErrorUnlessCompleted ==
  \A p \in Procs :
    ( /\ Polled(p)
      /\ Fetched(p).status # "completed"
      /\ (Fetched(p).status = "failed" \/ Fetched(p).error # NoError) ) =>
      /\ db[gid[p]].status = "failed"
      /\ db[gid[p]].error_message = MessageOf(Fetched(p))

C12_Witness ==
  \E p \in Procs :
    /\ Polled(p)
    /\ Fetched(p) = [status |-> "in_progress", error |-> ""]
    /\ db[gid[p]].error_message = "Video generation failed"

\* C13: after every call whose fetch of the remote status succeeded, the
\* metadata of the row equals the payload just fetched, whichever branch the
\* status took: completed, failed or error, processing, or unrecognized.
C13_MetadataIsLatestPayload ==
  \A p \in Procs : Polled(p) => db[gid[p]].metadata = Fetched(p)

KnownStatuses == {"completed", "failed", "processing", "queued", "in_progress"}

\* C14: after a call whose fetched status string is none of the known ones
\* and whose payload carries no error object, status, video_url,
\* error_message and openai_job_id of the row equal what the call read at
\* its start.
C14_UnknownStatusKeepsRow ==
  \A p \in Procs :
    (Polled(p) /\ Fetched(p).status \notin KnownStatuses /\ Fetched(p).error = NoError) =>
      /\ db[gid[p]].status = generation[p].status
      /\ db[gid[p]].video_url = generation[p].video_url
      /\ db[gid[p]].error_message = generation[p].error_message
      /\ db[gid[p]].openai_job_id = generation[p].openai_job_id

C14_Witness ==
  \E p \in Procs :
    /\ Polled(p)
    /\ Fetched(p) = [status |-> "archived", error |-> NoError]
    /\ db[gid[p]].metadata = Fetched(p)
    /\ generation[p].status = "completed" /\ generation[p].video_url # NullUrl

\* the download and the upload of a call, if it made them, succeeded
Migrated(p) == "error_message" \notin DOMAIN updates[p]

\* C15: createVideoGeneration stores the row as 'pending' before the
\* submission and, the remote accepting, leaves it 'processing' with an
\* openai_job_id; a call that polls 'queued' on the processing row leaves
\* it 'processing'; a call that polls 'completed' on it, download and upload
\* succeeding, leaves it 'completed' with a video_url.
C15_HappyPath ==
  /\ [](cpc = "submit" => db[cid].status = "pending" /\ db[cid].openai_job_id = NullId)
  /\ [][(cpc = "submit" /\ cresult' = "returned") =>
          db'[cid].status = "processing" /\ db'[cid].openai_job_id # NullId]_vars
  /\ [](\A p \in Procs :
          (Polled(p) /\ generation[p].status = "processing") =>
            /\ Fetched(p) = [status |-> "queued", error |-> NoError] =>
                 db[gid[p]].status = "processing"
            /\ (Fetched(p) = [status |-> "completed", error |-> NoError] /\ Migrated(p)) =>
                 db[gid[p]].status = "completed" /\ db[gid[p]].video_url # NullUrl)

C15_Witness ==
  /\ cresult = "returned"
  /\ \E p, q \in Procs :
       /\ pc[p] = "done" /\ pc[q] = "done" /\ gid[p] = cid /\ gid[q] = cid
       /\ polled[p] = "queued" /\ ret[p].status = "processing"
       /\ generation[q] = ret[p]
       /\ polled[q] = "completed" /\ ~overlapped[q] /\ ~interfered[q]
       /\ db[cid].status = "completed" /\ db[cid].video_url # NullUrl

\* the resolutions offered for 'sora-2-pro' alone
ProOnly == {r \in Resolutions : RESOLUTION_OPTIONS[r] = {"sora-2-pro"}}

\* C16: no POST /videos is sent for the model 'sora-2' with a resolution
\* that is offered for 'sora-2-pro' alone ('1792x1024' or '1024x1792'): the
\* submission is turned down before the network call.
C16_NoPostForUnofferedResolution ==
  \A r \in requests :
    r.endpoint = "POST /videos" => ~(r.model = "sora-2" /\ r.size \in ProOnly)

\* C17: no request is sent to the remote video API with a key that is empty
\* or holds blanks only, whichever of create, status, download or probe it
\* is.
C17_NoRequestWithBlankKey ==
  \A r \in requests : Trim(r.auth) # << >>

\* C18: a deleteVideoGeneration call for an id that has no row returns
\* without throwing and leaves every row and every stored video as it was.
C18_DeleteAbsentIsNoOp ==
  [][(did = NullId /\ did' # NullId /\ ~Exists(did')) =>
       (dresult' = "returned" /\ db' = db /\ videoStore' = videoStore)]_vars

C18_Witness ==
  /\ did # NullId /\ dcount = 0 /\ dresult = "returned"
  /\ db # << >> /\ videoStore # {}

\* C19: for positive dimensions computeContainFit returns a rectangle that
\* lies inside the target, is centred, and fills the target on one axis at
\* least, with no padding when source and target have the same aspect
\* ratio; it throws when a dimension is zero or negative.
C19_ContainFit ==
  out # NotCalled =>
    LET srcWidth == args[1]
        srcHeight == args[2]
        targetWidth == args[3]
        targetHeight == args[4]
    IN IF srcWidth > 0 /\ srcHeight > 0 /\ targetWidth > 0 /\ targetHeight > 0
       THEN /\ out.kind = "returned"
            /\ LET r == out.value IN
                 /\ r.dx >= 0 /\ r.dy >= 0
                 /\ r.dx + r.drawWidth <= targetWidth
                 /\ r.dy + r.drawHeight <= targetHeight
                 /\ r.dx = (targetWidth - r.drawWidth) \div 2
                 /\ r.dy = (targetHeight - r.drawHeight) \div 2
                 /\ r.drawWidth = targetWidth \/ r.drawHeight = targetHeight
                 /\ srcWidth * targetHeight = srcHeight * targetWidth =>
                      r.dx = 0 /\ r.dy = 0
       ELSE out = Threw

C19_Witness ==
  /\ args = <<2, 1, 4, 4>>
  /\ out.kind = "returned"
  /\ out.value.drawWidth = 4 /\ out.value.drawHeight = 2
  /\ out.value.dx = 0 /\ out.value.dy = 1

\* the strings W x H of two positive integers written in digits
WxH(W, H) == W \o <<"x">> \o H
PositiveInteger(str) == IsDigits(str) /\ Decimal(str) > 0

\* the width part and the height part of a string: what stands before the
\* first separator and what stands between the first and the second
Parts(str) == Split(str)
Missing(str, i) == i > Len(Parts(str)) \/ Parts(str)[i] = << >>
Zero(str, i) ==
  ~Missing(str, i) /\ ~Number(Parts(str)[i]).nan /\ Number(Parts(str)[i]).val = 0
NotANumber(str, i) == ~Missing(str, i) /\ Number(Parts(str)[i]).nan

\* C20: parseResolution returns {width: W, height: H} for every string WxH
\* whose two parts are positive integers, and throws for every string whose
\* width part or height part is missing, zero or not a number.
C20_ParseResolution ==
  out # NotCalled =>
    /\ \A k \in 1..Len(args) :
         LET W == SubSeq(args, 1, k - 1)
             H == SubSeq(args, k + 1, Len(args))
         IN (PositiveInteger(W) /\ PositiveInteger(H) /\ args = WxH(W, H)) =>
              out = Returned([width |-> Decimal(W), height |-> Decimal(H)])
    /\ (\E i \in {1, 2} : Missing(args, i) \/ Zero(args, i) \/ NotANumber(args, i)) =>
         out = Threw

C20_Witness ==
  /\ args = <<"1", "2", "x", "2">>
  /\ out = Returned([width |-> 12, height |-> 2])

\* C21: a call that read a row whose status is 'completed' or 'failed' issues
\* no download and no upload and leaves status, video_url and error_message
\* of the row as it read them, whatever the remote reports.
C21_TerminalIsNoOp ==
  \A p \in Procs :
    (pc[p] = "done" /\ generation[p].status \in Terminal /\ ~interfered[p]) =>
      /\ downloads[p] = 0 /\ uploads[p] = 0
      /\ db[gid[p]].status = generation[p].status
      /\ db[gid[p]].video_url = generation[p].video_url
      /\ db[gid[p]].error_message = generation[p].error_message


\* the call went to downloadAndStoreVideo and the download or the upload threw
MigrationFailed(p) ==
  /\ Fetched(p).status = "completed" /\ generation[p].video_url = NullUrl
  /\ downloads[p] = 1 /\ "video_url" \notin DOMAIN updates[p]

\* C22: after a call that polled 'completed' on a row without video_url and
\* whose download or upload failed, the row is 'failed', its error_message is
\* the message of the failure, and its video_url is still null.
C22_MigrationFailureMarksFailed ==
  \A p \in Procs :
    (Polled(p) /\ MigrationFailed(p)) =>
      /\ db[gid[p]].status = "failed"
      /\ db[gid[p]].error_message \in
           (IF uploads[p] = 0 THEN DownloadErrors ELSE UploadErrors)
      /\ db[gid[p]].video_url = NullUrl

C22_Witness ==
  /\ \E p \in Procs :
       /\ Polled(p) /\ MigrationFailed(p) /\ uploads[p] = 1
       /\ generation[p].status = "processing"
       /\ db[gid[p]].error_message \in UploadErrors
  /\ videoStore = {}

C22_WitnessDownload ==
  \E p \in Procs :
    /\ Polled(p) /\ MigrationFailed(p) /\ uploads[p] = 0
    /\ db[gid[p]].error_message \in DownloadErrors

\* the objects the video bucket holds for job i
ObjectsOf(i) == {key \in videoStore : key[1] = i}

\* C23: whatever calls have migrated the video of a job, one after the other
\* or overlapping, the video bucket holds at most one object for the job,
\* the one under `${generationId}/${videoId}.mp4`.
C23_OneObjectPerJob ==
  \A i \in JobIds :
    /\ Cardinality(ObjectsOf(i)) <= 1
    /\ ObjectsOf(i) \subseteq {<<i, RemoteIdOf(i)>>}

C23_Witness ==
  \E p, q \in Procs :
    /\ p # q /\ pc[p] = "done" /\ pc[q] = "done" /\ gid[p] = gid[q]
    /\ uploads[p] = 1 /\ "video_url" \in DOMAIN updates[p]
    /\ uploads[q] = 1 /\ "video_url" \in DOMAIN updates[q]
    /\ Cardinality(ObjectsOf(gid[p])) = 1

\* the running or the last createVideoGeneration call had a file and its
\* uploadImage failed
ImageUploadFailed == imageFile # NoFile /\ cerror \in ImageUploadErrors

\* C24: when createVideoGeneration is given an image file and the upload of
\* the image fails, the call throws the error, and at that point and from
\* then on the call has inserted no row and sent no POST /videos.
C24_ImageUploadFailureAborts ==
  /\ [][(cpc = "upload" /\ cerror' \in ImageUploadErrors) =>
          /\ cresult' = "threw" /\ cpc' = "idle"
          /\ db' = db /\ requests' = requests]_vars
  /\ [](ImageUploadFailed =>
          /\ cpc = "idle" /\ cresult = "threw"
          /\ cid = NullId /\ posted = NoPost)

C24_Witness ==
  /\ ImageUploadFailed /\ cpc = "idle" /\ cresult = "threw"
  /\ db = << >> /\ requests = {} /\ imageStore = {}

\* C25: the POST /videos of a createVideoGeneration call that was given an
\* image file carries the file as a multipart payload; the URL of the stored
\* image goes out as a JSON field only when the call has no file.
C25_FileGoesAsMultipart ==
  posted # NoPost =>
    /\ imageFile # NoFile => posted.body = "multipart"
    /\ (posted.body = "json" /\ posted.image # NullUrl) => imageFile = NoFile

\* the page shows row i as 'pending' or 'processing'
ShownPending(i) ==
  i \in DOMAIN generations /\ generations[i].status \in {"pending", "processing"}

\* the page starts a checkVideoStatus call for row i in this step
PageInvokes(i) ==
  \E p \in Procs : pc[p] = "idle" /\ pc'[p] = "get" /\ gid'[p] = i

\* C26: the generator page calls checkVideoStatus only for rows its list
\* shows as 'pending' or 'processing', never for a row shown as 'completed'
\* or 'failed', and while the list shows no such row it starts no call.
C26_PollsOnlyShownPending ==
  /\ [][\A i \in JobIds : PageInvokes(i) => ShownPending(i)]_vars
  /\ [][(\A i \in JobIds : ~ShownPending(i)) => \A i \in JobIds : ~PageInvokes(i)]_vars

C26_Witness ==
  /\ PassOver
  /\ \E i, j \in DOMAIN passLog :
       /\ i # j
       /\ passLog[i].st = "applied" /\ generations[i].status \in Terminal
       /\ passLog[j].st = "applied" /\ generations[j].status = "processing"
  /\ calls = 2

\* the columns createVideoGeneration sets for good
CreateColumns ==
  {"prompt", "model", "resolution", "duration", "openai_job_id", "image_url",
   "image_filename"}
Created(row) == [f \in CreateColumns |-> row[f]]

\* a step of a checkVideoStatus call
ReconcileActs == \E p \in Procs : pc'[p] # pc[p]

\* C27: no step of a checkVideoStatus call changes id, prompt, model,
\* resolution, duration, openai_job_id, image_url or image_filename of a row:
\* after any number of calls they are as createVideoGeneration left them.
C27_ReconcileKeepsCreateColumns ==
  [][ReconcileActs =>
       \A i \in DOMAIN db : i \in DOMAIN db' /\ Created(db'[i]) = Created(db[i])]_vars

C27_Witness ==
  /\ calls = MaxCalls
  /\ \E p \in Procs :
       /\ pc[p] = "done" /\ polled[p] = "completed" /\ generation[p].status = "failed"
       /\ db[gid[p]].status = "completed" /\ db[gid[p]].video_url # NullUrl
       /\ Created(db[gid[p]]) =
            [prompt |-> "a cat", model |-> "sora-2-pro", resolution |-> "1280x720",
             duration |-> 4, openai_job_id |-> RemoteIdOf(gid[p]),
             image_url |-> <<"uploads/", 1>>, image_filename |-> "cat.png"]

\* call p read a row that has no openai_job_id
NoJobId(p) == generation[p] # NoGen /\ generation[p].openai_job_id = NullId

\* C28: a checkVideoStatus call on a row without openai_job_id, be it still
\* 'pending' or marked 'failed' by createVideoGeneration, polls nothing,
\* downloads and uploads nothing, writes nothing and returns the row as read.
C28_NoJobIdReturnsRow ==
  /\ [](\A p \in Procs :
          NoJobId(p) =>
            /\ pc[p] = "done" /\ result[p] = "returned" /\ ret[p] = generation[p]
            /\ polled[p] = "none" /\ downloads[p] = 0 /\ uploads[p] = 0
            /\ updates[p] = NoUpdates)
  /\ [][\A p \in Procs :
          (pc[p] = "get" /\ NoJobId(p)') =>
            db' = db /\ videoStore' = videoStore /\ ret'[p] = db[gid[p]]]_vars

C28_Witness ==
  /\ \E p \in Procs :
       NoJobId(p) /\ pc[p] = "done" /\ generation[p].status = "failed"
         /\ db[gid[p]] = ret[p]
  /\ \E q \in Procs :
       NoJobId(q) /\ pc[q] = "done" /\ generation[q].status = "pending"

\* the sum of the amounts of the recorded transactions
RECURSIVE SumOfAmounts(_)
SumOfAmounts(txs) ==
  IF txs = << >> THEN 0 ELSE Head(txs).amount + SumOfAmounts(Tail(txs))

\* every AccountService call made has finished
AccountSettled == \A p \in Procs : apc[p] \in {"idle", "done"}

\* C29: once the deposit, charge and refund calls on an account have
\* finished, however their steps interleaved, the balance is the opening
\* balance plus the amounts of the recorded transactions, and balance_after
\* of the transaction recorded last is the balance.
C29_BalanceMatchesTransactions ==
  AccountSettled =>
    /\ balance = opening + SumOfAmounts(transactions)
    /\ transactions # << >> => transactions[Len(transactions)].balance_after = balance

\* the last deleteVideoGeneration call removed a row while call p for that
\* row had read it and not settled
DeletedInFlight(p) ==
  /\ did # NullId /\ dcount = 1 /\ dresult = "returned"
  /\ gid[p] = did /\ generation[p] # NoGen

\* C30: once deleteVideoGeneration has removed a row, no write of a
\* checkVideoStatus call that is in flight for it brings the row back: no
\* step of a call creates a row, and when both have finished the table holds
\* no row for the id.
C30_DeleteIsFinal ==
  /\ [][\A i \in DOMAIN db' : i \in DOMAIN db]_vars
  /\ [](did # NullId => ~Exists(did))

C30_Witness ==
  \E p \in Procs :
    /\ DeletedInFlight(p) /\ pc[p] = "done" /\ result[p] = "returned"
    /\ polled[p] = "completed" /\ "video_url" \in DOMAIN updates[p]
    /\ ret[p] = generation[p] /\ generation[p].status = "processing"
    /\ ~Exists(did)

C30_WitnessBeforeWrite ==
  \E p \in Procs :
    /\ DeletedInFlight(p) /\ pc[p] = "update"
    /\ "video_url" \in DOMAIN updates[p]
    /\ ~Exists(did)

====
